---- MODULE Spec2Model ----
(***************************************************************************)
(* Query resolution and retention engine of document_extraction_backend.   *)
(*                                                                         *)
(* Python values are modelled structurally: a str is a sequence of         *)
(* one-character strings, a list is a sequence, a dict is a function whose *)
(* DOMAIN is its key set (so d.get(k, default) is a DOMAIN test), and an   *)
(* exception is an outcome tag carried next to the value.                  *)
(***************************************************************************)
EXTENDS Integers, Sequences, FiniteSets, TLC

VARIABLES
    \* ---- batch / single analyze_document (lib and app services) ----
    queries,        \* the caller's list of query strings
    extraction,     \* what the extraction service answers for this document
    results,        \* value returned by the batch analyze_document
    outcome,        \* "none" | "ok" | "error" of the batch analyze_document
    single,         \* value returned by the app's single-query analyze_document
    singleOutcome,  \* "none" | "ok" | "error" of the single-query path
    \* ---- request path: blob store, upload and query handlers ----
    bucket,         \* the blob store: upload number k (the object
                    \* documents/{FileId(k)}/{filename}) |-> LastModified, in UTC hours
    uploads,        \* number of file ids handed out so far
    qpc,            \* "idle" | "listed" | "done": position of the query request
    qreq,           \* the request: [path, file_id, user_query]
    qlisted,        \* whether list_objects_v2 returned a non-empty Contents
    qtrace,         \* what the handler did: exceptions, question, analysis
    qstatus,        \* status code of the response, 0 while none
    ulast,          \* the last upload: its size and extension, and the
                    \* response [status, file_id, detail]
    \* ---- retention sweeper ----
    now,            \* the clock, in hours (UTC)
    ticks,          \* how often the clock has advanced
    tz,             \* the host's local time minus UTC, in hours
    is_running,     \* CleanupService.is_running
    thread,         \* CleanupService.thread: a thread number, 0 for None
    loops,          \* thread number |-> state of that sweep loop
    callers,        \* caller |-> position inside start() or stop()
    calls,          \* number of start() and stop() calls made so far
    \* ---- image annotation ----
    image,          \* image.size: [width, height] in pixels
    geometry,       \* the bounding box dict, values in thousandths
    drawn,          \* what draw.rounded_rectangle was called with, if at all
    \* ---- secrets ----
    secret_cache,   \* lib/secrets.py _secret_cache: secret name |-> secret
    getters,        \* thread |-> position and locals inside get_secret
    provided,       \* secret name |-> the secrets derived from the provider's answers
    gets            \* number of get_secret calls made so far

resolveVars == <<queries, extraction, results, outcome, single, singleOutcome>>
requestVars == <<uploads, qpc, qreq, qlisted, qtrace, qstatus, ulast>>
queryVars == <<bucket, uploads, qpc, qreq, qlisted, qtrace, qstatus, ulast>>
sweepVars == <<now, ticks, tz, is_running, thread, loops, callers, calls>>
annotateVars == <<image, geometry, drawn>>
secretVars == <<secret_cache, getters, provided, gets>>
toolVars == <<annotateVars, secretVars>>

vars == <<queries, extraction, results, outcome, single, singleOutcome,
          bucket, uploads, qpc, qreq, qlisted, qtrace, qstatus, ulast,
          now, ticks, tz, is_running, thread, loops, callers, calls,
          image, geometry, drawn, secret_cache, getters, provided, gets>>

-----------------------------------------------------------------------------
(* Bounds *)

MaxQueries == 2
MaxBlocks == 4
MaxUploads == 2
MaxObjects == 4
MaxTicks == 2
MaxCalls == 3
MaxDays == 1
MaxGets == 3

-----------------------------------------------------------------------------
(* Python helpers *)

EmptyDict == [k \in {} |-> k]

\* d.get(k, default)
Get(d, k, default) == IF k \in DOMAIN d THEN d[k] ELSE default

\* iterating a str yields its one-character strings
StrItems(s) == [i \in 1..Len(s) |-> <<s[i]>>]

\* f'query_{i}' for the zero-based position i
Alias(i) == "query_" \o ToString(i)

Range(s) == {s[i] : i \in DOMAIN s}

-----------------------------------------------------------------------------
(* The extraction service's answers (RawAnswerGraph).  For every alias it  *)
(* was sent, the service returns at most one QUERY block; the QUERY block  *)
(* may carry no relationship, an empty one, one whose id is not in the     *)
(* response, or one that names QUERY_RESULT blocks; a QUERY_RESULT block   *)
(* may lack Text, Confidence and Geometry.  Block ids are unique.          *)

Shapes == {"missing", "norel", "emptyrel", "dangling", "full", "bare", "textonly",
           "twoids"}

QId(i) == "q" \o ToString(i)
AId(i) == "a" \o ToString(i)
XId(i) == "x" \o ToString(i)

QueryBlock(i, alias, ids) ==
    [Id |-> QId(i), BlockType |-> "QUERY", Query |-> [Alias |-> alias],
     Relationships |-> << [Type |-> "ANSWER", Ids |-> ids] >>]

AnswerBlock(id, i) ==
    [Id |-> id, BlockType |-> "QUERY_RESULT", Text |-> "ans" \o ToString(i),
     Confidence |-> 90 + i,
     Geometry |-> [BoundingBox |-> [Left |-> 10 + i, Top |-> 20 + i,
                                     Width |-> 30, Height |-> 5]]]

\* the blocks the service returns for the zero-based query position i
ShapeBlocks(i, alias, shape) ==
    CASE shape = "missing"  -> << >>
      [] shape = "norel"    -> << [Id |-> QId(i), BlockType |-> "QUERY",
                                   Query |-> [Alias |-> alias]] >>
      [] shape = "emptyrel" -> << [Id |-> QId(i), BlockType |-> "QUERY",
                                   Query |-> [Alias |-> alias],
                                   Relationships |-> << >>] >>
      [] shape = "dangling" -> << QueryBlock(i, alias, <<AId(i)>>) >>
      [] shape = "full"     -> << QueryBlock(i, alias, <<AId(i)>>),
                                  AnswerBlock(AId(i), i) >>
      [] shape = "bare"     -> << QueryBlock(i, alias, <<AId(i)>>),
                                  [Id |-> AId(i), BlockType |-> "QUERY_RESULT"] >>
      [] shape = "textonly" -> << QueryBlock(i, alias, <<AId(i)>>),
                                  [Id |-> AId(i), BlockType |-> "QUERY_RESULT",
                                   Text |-> "ans" \o ToString(i)] >>
      [] shape = "twoids"   -> << QueryBlock(i, alias, <<AId(i), XId(i)>>),
                                  AnswerBlock(AId(i), i),
                                  AnswerBlock(XId(i), i + 5) >>

RECURSIVE ConcatShapes(_, _)
ConcatShapes(sh, k) ==
    IF k = 0 THEN << >>
    ELSE ConcatShapes(sh, k - 1) \o ShapeBlocks(k - 1, Alias(k - 1), sh[k])

Permuted(s) == {[k \in 1..Len(s) |-> s[p[k]]] : p \in Permutations(1..Len(s))}

\* every block list the service may return for a batch of n queries
BlockLists(n) ==
    LET base == {ConcatShapes(sh, n) : sh \in [1..n -> Shapes]}
    IN UNION {Permuted(b) : b \in {c \in base : Len(c) <= MaxBlocks}}

Responses(n) ==
    {[kind |-> "ok", resp |-> [Blocks |-> b]] : b \in BlockLists(n)}
    \cup {[kind |-> "ok", resp |-> EmptyDict]}

\* the same responses with the blocks in request order only
OrderedResponses(n) ==
    {[kind |-> "ok", resp |-> [Blocks |-> b]] :
        b \in {c \in {ConcatShapes(sh, n) : sh \in [1..n -> Shapes]} :
                  Len(c) <= MaxBlocks}}
    \cup {[kind |-> "ok", resp |-> EmptyDict]}

\* ClientError raised by the textract client
ServiceFailure == [kind |-> "fail"]

-----------------------------------------------------------------------------
(* lib/aws_service.py: AWSService.analyze_document (batch)                 *)

TextractQueries(qs) ==
    [i \in 1..Len(qs) |-> [Text |-> qs[i], Alias |-> Alias(i - 1)]]

\* block_map = {block["Id"]: block for block in blocks}  (a later block wins)
BlockMap(blocks) ==
    [id \in {blocks[k].Id : k \in DOMAIN blocks} |->
        LET last == CHOOSE k \in DOMAIN blocks :
                        /\ blocks[k].Id = id
                        /\ \A m \in DOMAIN blocks : blocks[m].Id = id => m <= k
        IN blocks[last]]

\* faulty variant: the last id of the relationship is followed
AnswerBlockOfLastId(block, blockMap) ==
    LET relationships == Get(block, "Relationships", << >>)
        firstIds == IF relationships # << >>
                    THEN Get(relationships[1], "Ids", << >>)
                    ELSE << >>
    IN IF firstIds # << >> /\ firstIds[Len(firstIds)] # ""
       THEN Get(blockMap, firstIds[Len(firstIds)], EmptyDict)
       ELSE EmptyDict

\* the answer block a QUERY block resolves to, {} when there is none
AnswerBlockOf(block, blockMap) ==
    LET relationships == Get(block, "Relationships", << >>)
        firstIds == IF relationships # << >>
                    THEN Get(relationships[1], "Ids", << >>)
                    ELSE << >>
    IN IF firstIds # << >> /\ firstIds[1] # ""
       THEN Get(blockMap, firstIds[1], EmptyDict)
       ELSE EmptyDict

\* faulty variant: the defaults of the .get calls are dropped
QueryResultEntryNoDefault(block, blockMap) ==
    LET answer_block == AnswerBlockOf(block, blockMap)
    IN [answer     |-> Get(answer_block, "Text", ""),
        confidence |-> Get(answer_block, "Confidence", 0),
        geometry   |-> Get(Get(answer_block, "Geometry", EmptyDict),
                           "BoundingBox", EmptyDict),
        query_id   |-> Get(block, "Id", "")]

QueryResultEntry(block, blockMap) ==
    LET answer_block == AnswerBlockOf(block, blockMap)
    IN [answer     |-> Get(answer_block, "Text", "No answer found"),
        confidence |-> Get(answer_block, "Confidence", 0),
        geometry   |-> Get(Get(answer_block, "Geometry", EmptyDict),
                           "BoundingBox", EmptyDict),
        query_id   |-> Get(block, "Id", "")]

\* faulty variant: the QUERY blocks are taken to arrive in request order
RECURSIVE QueryResultsByOrder(_, _, _)
QueryResultsByOrder(blocks, k, blockMap) ==
    IF k = 0 THEN EmptyDict
    ELSE LET prev == QueryResultsByOrder(blocks, k - 1, blockMap)
             block == blocks[k]
             seen == Cardinality({m \in 1..(k - 1) :
                                    Get(blocks[m], "BlockType", "") = "QUERY"})
         IN IF Get(block, "BlockType", "") = "QUERY"
            THEN [a \in DOMAIN prev \cup {Alias(seen)} |->
                    IF a = Alias(seen) THEN QueryResultEntry(block, blockMap)
                    ELSE prev[a]]
            ELSE prev

\* first loop: query_results[alias] = ..., in block order (a later block wins)
RECURSIVE QueryResults(_, _, _)
QueryResults(blocks, k, blockMap) ==
    IF k = 0 THEN EmptyDict
    ELSE LET prev == QueryResults(blocks, k - 1, blockMap)
             block == blocks[k]
         IN IF Get(block, "BlockType", "") = "QUERY"
            THEN LET alias == Get(Get(block, "Query", EmptyDict), "Alias", "")
                 IN [a \in DOMAIN prev \cup {alias} |->
                        IF a = alias THEN QueryResultEntry(block, blockMap)
                        ELSE prev[a]]
            ELSE prev

NoAnswer(query) ==
    [query |-> query, answer |-> "No answer found", confidence |-> 0,
     geometry |-> EmptyDict, query_id |-> ""]

\* second loop: one result per input position, by alias
ResultAt(qs, i, query_results) ==
    LET alias == Alias(i - 1)
    IN IF alias \in DOMAIN query_results
       THEN [query      |-> qs[i],
             answer     |-> query_results[alias].answer,
             confidence |-> query_results[alias].confidence,
             geometry   |-> query_results[alias].geometry,
             query_id   |-> query_results[alias].query_id]
       ELSE NoAnswer(qs[i])

\* faulty variant: a service failure is swallowed and fallback records are returned
AnalyzeDocumentSwallow(qs, ext) ==
    LET blocks == IF ext.kind = "fail" THEN << >> ELSE Get(ext.resp, "Blocks", << >>)
        blockMap == BlockMap(blocks)
        query_results == QueryResults(blocks, Len(blocks), blockMap)
    IN [outcome |-> "ok",
        value |-> [i \in 1..Len(qs) |-> ResultAt(qs, i, query_results)],
        sent |-> << TextractQueries(qs) >>]

\* the whole method: [outcome, value, sent]; an exception returns no value;
\* sent lists the QueriesConfig of every textract.analyze_document call made
AnalyzeDocument(qs, ext) ==
    IF ext.kind = "fail"
    THEN [outcome |-> "error", value |-> << >>, sent |-> << TextractQueries(qs) >>]
    ELSE LET blocks == Get(ext.resp, "Blocks", << >>)
             blockMap == BlockMap(blocks)
             query_results == QueryResults(blocks, Len(blocks), blockMap)
         IN [outcome |-> "ok",
             value |-> [i \in 1..Len(qs) |-> ResultAt(qs, i, query_results)],
             sent |-> << TextractQueries(qs) >>]

-----------------------------------------------------------------------------
(* app/services/aws_service.py: AWSService.analyze_document (single query) *)

\* the service answers the same graph under the alias it was sent
WithAlias(ext, alias) ==
    IF ext.kind = "fail" \/ "Blocks" \notin DOMAIN ext.resp THEN ext
    ELSE [kind |-> "ok",
          resp |-> [Blocks |->
            [k \in DOMAIN ext.resp.Blocks |->
               LET b == ext.resp.Blocks[k]
               IN IF "Query" \in DOMAIN b
                  THEN [f \in DOMAIN b |->
                          IF f = "Query" THEN [Alias |-> alias] ELSE b[f]]
                  ELSE b]]]

AnalyzeDocumentSingle(query, ext0) ==
    LET ext == WithAlias(ext0, "user_query") IN
    IF ext.kind = "fail"
    THEN [outcome |-> "error", value |-> EmptyDict]
    ELSE LET blocks == Get(ext.resp, "Blocks", << >>)
             hits == {k \in DOMAIN blocks :
                        Get(blocks[k], "BlockType", "") = "QUERY_RESULT"}
         IN IF hits = {}
            THEN [outcome |-> "ok",
                  value |-> [query |-> query,
                             answer |-> "No relevant answer found.",
                             confidence |-> 0]]
            ELSE LET first == CHOOSE k \in hits : \A m \in hits : k <= m
                     block == blocks[first]
                 IN IF "Text" \notin DOMAIN block
                    THEN [outcome |-> "error", value |-> EmptyDict]  \* KeyError
                    ELSE [outcome |-> "ok",
                          value |-> [query |-> query,
                                     answer |-> block.Text,
                                     confidence |-> Get(block, "Confidence", 0)]]

-----------------------------------------------------------------------------
(* Resolve specification: a caller's query list, a deterministic           *)
(* extraction service, and the two analyze_document implementations.       *)

NoTrace ==
    [getFile |-> "none", key |-> "none", rephrase |-> "none", question |-> << >>,
     textract |-> "none",
     analysis |-> [outcome |-> "none", value |-> << >>, sent |-> << >>],
     raised |-> "none"]

NoUpload == [status |-> 0, file_id |-> "", detail |-> "", size |-> 0, ext |-> ""]

NoRequest == [path |-> "none", file_id |-> "", user_query |-> << >>]

\* the request path at rest (the state the other specifications keep it in)
QueryIdle ==
    /\ bucket = EmptyDict
    /\ uploads = 0
    /\ qpc = "idle"
    /\ qreq = NoRequest
    /\ qlisted = FALSE
    /\ qtrace = NoTrace
    /\ qstatus = 0
    /\ ulast = NoUpload

Callers == {"c1", "c2"}

NoLoop ==
    [pc |-> "none", cutoff |-> 0, token |-> 0, page |-> << >>, truncated |-> FALSE,
     slept |-> 0, wake |-> 0, iter |-> 0, store0 |-> EmptyDict, now0 |-> 0,
     deleted |-> {}, failed |-> {}, aborted |-> "none"]

IdleCaller == [pc |-> "idle", target |-> 0, ret |-> "none"]

\* the sweeper at rest: a constructed CleanupService, no loop
SweepIdle ==
    /\ now = 0
    /\ ticks = 0
    /\ tz = 0
    /\ is_running = FALSE
    /\ thread = 0
    /\ loops = EmptyDict
    /\ callers = [c \in Callers |-> IdleCaller]
    /\ calls = 0

Getters == {"g1", "g2"}

IdleGetter ==
    [pc |-> "idle", name |-> "", use_cache |-> TRUE, cached |-> FALSE,
     called |-> FALSE, wrote |-> FALSE, secret |-> << >>, outcome |-> "none",
     ret |-> << >>]

NoImage == [width |-> 0, height |-> 0]

NotDrawn == [done |-> FALSE, drawn |-> FALSE, box |-> << >>, radius |-> 0]

\* the annotation and the secrets module at rest: nothing annotated, an
\* empty cache, nobody inside get_secret
AnnotateIdle ==
    /\ image = NoImage
    /\ geometry = EmptyDict
    /\ drawn = NotDrawn

SecretsIdle ==
    /\ secret_cache = EmptyDict
    /\ getters = [g \in Getters |-> IdleGetter]
    /\ provided = EmptyDict
    /\ gets = 0

ToolsIdle == AnnotateIdle /\ SecretsIdle

Texts == {<<"a">>, <<"b", "a">>}

\* the caller's list of n queries: all alike, or alternating two texts
QueryLists(n) ==
    {[i \in 1..n |-> <<"a">>],
     [i \in 1..n |-> IF i % 2 = 1 THEN <<"b", "a">> ELSE <<"a">>]}

ResolveInit ==
    /\ \E n \in 1..MaxQueries :
          /\ extraction \in Responses(n) \cup {ServiceFailure}
          /\ queries \in QueryLists(n)
    /\ results = << >>
    /\ outcome = "none"
    /\ single = EmptyDict
    /\ singleOutcome = "none"
    /\ QueryIdle
    /\ SweepIdle
    /\ ToolsIdle

BatchAnalyze ==
    /\ outcome = "none"
    /\ LET r == AnalyzeDocument(queries, extraction)
       IN /\ outcome' = r.outcome
          /\ results' = r.value
    /\ UNCHANGED <<queries, extraction, single, singleOutcome>>
    /\ UNCHANGED queryVars
    /\ UNCHANGED <<sweepVars, toolVars>>

SingleAnalyze ==
    /\ singleOutcome = "none"
    /\ Len(queries) = 1
    /\ LET r == AnalyzeDocumentSingle(queries[1], extraction)
       IN /\ singleOutcome' = r.outcome
          /\ single' = r.value
    /\ UNCHANGED <<queries, extraction, results, outcome>>
    /\ UNCHANGED queryVars
    /\ UNCHANGED <<sweepVars, toolVars>>

ResolveNext == BatchAnalyze \/ SingleAnalyze

SpecResolve == ResolveInit /\ [][ResolveNext]_vars

-----------------------------------------------------------------------------
(* Upload: app/main.py validate_file + upload_document, and the lambda's   *)
(* handle_upload (the same two checks in the other order of evaluation).   *)

MAX_FILE_SIZE == 10 * 1024 * 1024
ALLOWED_FILE_TYPES == {".pdf", ".png", ".jpg", ".jpeg"}

UploadSizes == {1, MAX_FILE_SIZE, MAX_FILE_SIZE + 1}

\* os.path.splitext(file.filename)[1] of the uploaded file
UploadExts == {".pdf", ".PDF", ".txt", ""}

\* str.lower() on the extensions above
Lower(ext) == IF ext = ".PDF" THEN ".pdf" ELSE ext

\* str(uuid.uuid4()): a file id no earlier upload was given
FileId(k) == "f" \o ToString(k)

\* list_objects_v2(Prefix=documents/{file_id}/) returns a non-empty Contents
Stored(file_id) == \E k \in DOMAIN bucket : FileId(k) = file_id

\* faulty variant: a file of exactly the maximum size is refused
ValidateFileInclusive(size, ext) ==
    IF size >= MAX_FILE_SIZE THEN "File too large"
    ELSE IF Lower(ext) \notin ALLOWED_FILE_TYPES THEN "File type not allowed"
    ELSE "ok"

ValidateFile(size, ext) ==
    IF size > MAX_FILE_SIZE THEN "File too large"
    ELSE IF Lower(ext) \notin ALLOWED_FILE_TYPES THEN "File type not allowed"
    ELSE "ok"

\* putFails: s3.put_object raises, which both handlers answer with a 500
UploadDocument(size, ext, putFails) ==
    /\ uploads < MaxUploads
    /\ LET detail == ValidateFile(size, ext)
       IN IF detail # "ok"
          THEN /\ ulast' = [status |-> 400, file_id |-> "", detail |-> detail,
                            size |-> size, ext |-> ext]
               /\ UNCHANGED <<bucket, uploads>>
          ELSE IF putFails
          THEN /\ ulast' = [status |-> 500, file_id |-> "", detail |-> "ClientError",
                            size |-> size, ext |-> ext]
               /\ UNCHANGED <<bucket, uploads>>
          ELSE /\ uploads' = uploads + 1
               /\ bucket' = [k \in DOMAIN bucket \cup {uploads + 1} |->
                                IF k = uploads + 1 THEN now ELSE bucket[k]]
               /\ ulast' = [status |-> 200, file_id |-> FileId(uploads + 1),
                            detail |-> "File uploaded successfully",
                            size |-> size, ext |-> ext]
    /\ UNCHANGED <<qpc, qreq, qlisted, qtrace, qstatus>>
    /\ UNCHANGED resolveVars
    /\ UNCHANGED <<sweepVars, toolVars>>

-----------------------------------------------------------------------------
(* Query request, lambda path: src/functions/lambda_function.py            *)
(* handle_query over lib/aws_service.py and lib/openai_client.py.          *)

\* what get_file's body raises: list_objects_v2, then get_object
GetFileRaises(listed, present) ==
    IF ~listed THEN "FileNotFoundError"
    ELSE IF ~present THEN "ClientError"      \* NoSuchKey from get_object
    ELSE "none"

\* lib get_file: both except clauses re-raise a plain Exception
LibGetFile(listed, present) ==
    IF GetFileRaises(listed, present) = "none" THEN "none" ELSE "Exception"

\* app get_file: no handler, the exception leaves as raised
AppGetFile(listed, present) == GetFileRaises(listed, present)

\* the except clauses of handle_query, in order
HandleQueryStatus(raised) ==
    CASE raised = "none"              -> 200
      [] raised = "FileNotFoundError" -> 404
      [] raised = "ValueError"        -> 400
      [] OTHER                        -> 500

RephraseFailure == [kind |-> "fail"]

\* generate_tick_marking_question: the completion's text, or the client's error
GenerateTickMarkingQuestion(user_query, reph) ==
    IF reph.kind = "fail"
    THEN [raised |-> "Exception", question |-> << >>]
    ELSE [raised |-> "none", question |-> reph.text]

\* handle_query from the get_file result on; the trace records each stage
HandleQuery(req, getFile, keyOk, reph, ext) ==
    IF req.file_id = "" \/ req.user_query = << >>
    THEN [NoTrace EXCEPT !.raised = "ValueError"]
    ELSE IF getFile # "none"
    THEN [NoTrace EXCEPT !.getFile = getFile, !.raised = getFile]
    ELSE IF ~keyOk
    THEN [NoTrace EXCEPT !.key = "missing", !.raised = "ValueError"]
    ELSE LET g == GenerateTickMarkingQuestion(req.user_query, reph) IN
    IF g.raised # "none"
    THEN [NoTrace EXCEPT !.key = "ok", !.rephrase = "fail", !.raised = g.raised]
    ELSE LET analysis_result == AnalyzeDocument(StrItems(g.question), ext)
             t == [NoTrace EXCEPT !.key = "ok", !.rephrase = "ok",
                                  !.question = g.question, !.textract = ext.kind,
                                  !.analysis = analysis_result]
         IN IF analysis_result.outcome = "error"
            THEN [t EXCEPT !.raised = "Exception"]
            \* analysis_result["query"] on a list
            ELSE [t EXCEPT !.raised = "TypeError"]

Questions == {<<"a">>, <<"a", "b">>}
FileIds == {FileId(k) : k \in 1..MaxUploads} \cup {"nonexistent-uuid"}

\* parse the body and list documents/{file_id}/
HandleQueryList(file_id, user_query) ==
    /\ qpc \in {"idle", "done"}
    /\ qreq' = [path |-> "lambda", file_id |-> file_id, user_query |-> user_query]
    /\ qlisted' = Stored(file_id)
    /\ IF file_id = "" \/ user_query = << >> \/ ~Stored(file_id)
       THEN LET t == HandleQuery(qreq', LibGetFile(FALSE, FALSE), TRUE,
                                 RephraseFailure, ServiceFailure)
            IN /\ qtrace' = t
               /\ qstatus' = HandleQueryStatus(t.raised)
               /\ qpc' = "done"
       ELSE /\ qtrace' = NoTrace
            /\ qstatus' = 0
            /\ qpc' = "listed"
    /\ UNCHANGED <<bucket, uploads, ulast>>
    /\ UNCHANGED resolveVars
    /\ UNCHANGED <<sweepVars, toolVars>>

\* get_object and everything after it
HandleQueryFinish(keyOk, reph, ext) ==
    /\ qpc = "listed"
    /\ qreq.path = "lambda"
    /\ LET t == HandleQuery(qreq, LibGetFile(qlisted, Stored(qreq.file_id)),
                            keyOk, reph, ext)
       IN /\ qtrace' = t
          /\ qstatus' = HandleQueryStatus(t.raised)
    /\ qpc' = "done"
    /\ UNCHANGED <<bucket, uploads, qreq, qlisted, ulast>>
    /\ UNCHANGED resolveVars
    /\ UNCHANGED <<sweepVars, toolVars>>

-----------------------------------------------------------------------------
(* Query request, app path: app/main.py query_document.                    *)

\* except HTTPException: raise e; every other exception becomes a 500
QueryDocumentStatus(raised) ==
    CASE raised = "none"    -> 200
      [] raised = "HTTP404" -> 404
      [] OTHER              -> 500

QueryDocument(req, getFile, ext) ==
    IF getFile = "FileNotFoundError"
    THEN [NoTrace EXCEPT !.getFile = getFile, !.raised = "HTTP404"]
    ELSE IF getFile # "none"
    THEN [NoTrace EXCEPT !.getFile = getFile, !.raised = getFile]
    ELSE LET a == AnalyzeDocumentSingle(req.user_query, ext)
             t == [NoTrace EXCEPT !.textract = ext.kind, !.analysis = a]
         IN IF a.outcome = "error" THEN [t EXCEPT !.raised = "Exception"] ELSE t

QueryDocumentList(file_id, user_query) ==
    /\ qpc \in {"idle", "done"}
    /\ qreq' = [path |-> "app", file_id |-> file_id, user_query |-> user_query]
    /\ qlisted' = Stored(file_id)
    /\ IF ~Stored(file_id)
       THEN LET t == QueryDocument(qreq', AppGetFile(FALSE, FALSE), ServiceFailure)
            IN /\ qtrace' = t
               /\ qstatus' = QueryDocumentStatus(t.raised)
               /\ qpc' = "done"
       ELSE /\ qtrace' = NoTrace
            /\ qstatus' = 0
            /\ qpc' = "listed"
    /\ UNCHANGED <<bucket, uploads, ulast>>
    /\ UNCHANGED resolveVars
    /\ UNCHANGED <<sweepVars, toolVars>>

QueryDocumentFinish(ext) ==
    /\ qpc = "listed"
    /\ qreq.path = "app"
    /\ LET t == QueryDocument(qreq, AppGetFile(qlisted, Stored(qreq.file_id)), ext)
       IN /\ qtrace' = t
          /\ qstatus' = QueryDocumentStatus(t.raised)
    /\ qpc' = "done"
    /\ UNCHANGED <<bucket, uploads, qreq, qlisted, ulast>>
    /\ UNCHANGED resolveVars
    /\ UNCHANGED <<sweepVars, toolVars>>

-----------------------------------------------------------------------------
(* The retention sweep seen from the request path: cleanup_old_files       *)
(* deleting one object it found past the retention window.                 *)

SweepDeleteObject(key) ==
    /\ key \in DOMAIN bucket
    /\ bucket' = [k \in DOMAIN bucket \ {key} |-> bucket[k]]
    /\ UNCHANGED <<uploads, qpc, qreq, qlisted, qtrace, qstatus, ulast>>
    /\ UNCHANGED resolveVars
    /\ UNCHANGED <<sweepVars, toolVars>>

ResolveIdle ==
    /\ queries = << >>
    /\ extraction = ServiceFailure
    /\ results = << >>
    /\ outcome = "none"
    /\ single = EmptyDict
    /\ singleOutcome = "none"

QueryInit == ResolveIdle /\ QueryIdle /\ SweepIdle /\ ToolsIdle

QueryNext ==
    \/ \E size \in UploadSizes, ext \in UploadExts, putFails \in BOOLEAN :
          UploadDocument(size, ext, putFails)
    \/ \E f \in FileIds \cup {""}, q \in Texts \cup {<< >>} : HandleQueryList(f, q)
    \/ \E keyOk \in BOOLEAN,
          reph \in {RephraseFailure} \cup {[kind |-> "ok", text |-> t] : t \in Questions} :
          \E ext \in {ServiceFailure} \cup
                     (IF reph.kind = "ok" THEN OrderedResponses(Len(reph.text))
                      ELSE {}) :
             HandleQueryFinish(keyOk, reph, ext)
    \/ \E f \in FileIds, q \in Texts : QueryDocumentList(f, q)
    \/ \E ext \in {ServiceFailure} \cup Responses(1) : QueryDocumentFinish(ext)
    \/ \E k \in 1..MaxUploads : SweepDeleteObject(k)

SpecQuery == QueryInit /\ [][QueryNext]_vars

-----------------------------------------------------------------------------
(* Retention sweep: app/services/aws_service.py cleanup_old_files (and the *)
(* standalone copy in app/cleanup.py), one step per S3 call.               *)

\* cleanup_interval_hours, the sweep's age cutoff and the loop's sleep
CleanupIntervalHours == 24

\* keys per list_objects_v2 page
PageSize == 2

\* datetime.now(): the host's local wall clock, without timezone
DatetimeNow == now + tz

\* cutoff_time = datetime.now() - timedelta(hours=hours)
CutoffTime(hours) == DatetimeNow - hours

\* obj['LastModified'].replace(tzinfo=None): the UTC wall clock, timezone dropped
ReplaceTzinfoNone(last_modified) == last_modified

\* if last_modified < cutoff_time
IsOld(last_modified, cutoff_time) == ReplaceTzinfoNone(last_modified) < cutoff_time

RECURSIVE SortedKeys(_)
SortedKeys(S) ==
    IF S = {} THEN << >>
    ELSE LET m == CHOOSE k \in S : \A j \in S : k <= j
         IN <<m>> \o SortedKeys(S \ {m})

\* one page of the paginator: the next PageSize keys after the token
ListPage(token) ==
    LET keys == SortedKeys({k \in DOMAIN bucket : k > token})
        n == IF Len(keys) < PageSize THEN Len(keys) ELSE PageSize
    IN [Contents |-> [i \in 1..n |-> [Key |-> keys[i], LastModified |-> bucket[keys[i]]]],
        IsTruncated |-> Len(keys) > PageSize]

\* faulty variant: an iteration that ended in an error is retried at once
SleepingUnlessAborted(l, aborted) ==
    [l EXCEPT !.pc = "sleep", !.slept = now,
              !.wake = IF aborted = "none" THEN now + CleanupIntervalHours ELSE now,
              !.page = << >>, !.aborted = aborted]

\* the loop leaves cleanup_old_files and enters time.sleep(hours * 60 * 60);
\* aborted tells how the iteration ended and is kept until the next one ends
Sleeping(l, aborted) ==
    [l EXCEPT !.pc = "sleep", !.slept = now, !.wake = now + CleanupIntervalHours,
              !.page = << >>, !.aborted = aborted]

\* while self.is_running (while True in app/cleanup.py, thread 0):
\* leave the loop, or enter cleanup_old_files and compute the cutoff
LoopCheck(t) ==
    /\ t \in DOMAIN loops
    /\ loops[t].pc = "check"
    /\ loops' = [loops EXCEPT ![t] =
          IF t = 0 \/ is_running
          THEN [@ EXCEPT !.pc = "list", !.cutoff = CutoffTime(CleanupIntervalHours),
                         !.token = 0, !.page = << >>, !.truncated = FALSE,
                         !.iter = @ + 1, !.store0 = bucket, !.now0 = now,
                         !.deleted = {}, !.failed = {}]
          ELSE [@ EXCEPT !.pc = "exited"]]
    /\ UNCHANGED <<bucket, now, ticks, tz, is_running, thread, callers, calls>>
    /\ UNCHANGED <<resolveVars, requestVars, toolVars>>

\* faulty variant: a failed listing is not caught and ends the thread
SweepListPageCrash(t, fails) ==
    /\ t \in DOMAIN loops
    /\ loops[t].pc = "list"
    /\ loops' = [loops EXCEPT ![t] =
          IF fails
          THEN [@ EXCEPT !.pc = "exited", !.aborted = "list"]
          ELSE LET pg == ListPage(@.token)
               IN IF pg.Contents = << >>
                  THEN Sleeping(@, "none")
                  ELSE [@ EXCEPT !.pc = "page", !.page = pg.Contents,
                                 !.truncated = pg.IsTruncated,
                                 !.token = pg.Contents[Len(pg.Contents)].Key]]
    /\ UNCHANGED <<bucket, now, ticks, tz, is_running, thread, callers, calls>>
    /\ UNCHANGED <<resolveVars, requestVars, toolVars>>

\* for page in paginator.paginate(...): one list_objects_v2 call
SweepListPage(t, fails) ==
    /\ t \in DOMAIN loops
    /\ loops[t].pc = "list"
    /\ loops' = [loops EXCEPT ![t] =
          IF fails
          THEN Sleeping(@, "list")                 \* except Exception: print
          ELSE LET pg == ListPage(@.token)
               IN IF pg.Contents = << >>
                  THEN Sleeping(@, "none")         \* 'Contents' not in page
                  ELSE [@ EXCEPT !.pc = "page", !.page = pg.Contents,
                                 !.truncated = pg.IsTruncated,
                                 !.token = pg.Contents[Len(pg.Contents)].Key]]
    /\ UNCHANGED <<bucket, now, ticks, tz, is_running, thread, callers, calls>>
    /\ UNCHANGED <<resolveVars, requestVars, toolVars>>

\* for obj in page['Contents']: compare, and delete_object when old;
\* err is what delete_object raises: "none", "ClientError" or "Exception"
SweepObject(t, err) ==
    /\ t \in DOMAIN loops
    /\ loops[t].pc = "page"
    /\ LET l == loops[t]
           obj == Head(l.page)
           old == IsOld(obj.LastModified, l.cutoff)
           after == [l EXCEPT !.page = Tail(l.page)]
           next == IF after.page # << >> THEN after
                   ELSE IF after.truncated THEN [after EXCEPT !.pc = "list"]
                   ELSE Sleeping(after, "none")
       IN IF ~old
          THEN /\ err = "none"
               /\ loops' = [loops EXCEPT ![t] = next]
               /\ UNCHANGED bucket
          ELSE IF err = "none"
          THEN /\ bucket' = [k \in DOMAIN bucket \ {obj.Key} |-> bucket[k]]
               /\ loops' = [loops EXCEPT ![t] =
                              [next EXCEPT !.deleted = @ \cup {obj.Key}]]
          ELSE IF err = "ClientError"
          THEN /\ loops' = [loops EXCEPT ![t] =
                              [next EXCEPT !.failed = @ \cup {obj.Key}]]
               /\ UNCHANGED bucket
          ELSE /\ loops' = [loops EXCEPT ![t] =
                              Sleeping([l EXCEPT !.failed = @ \cup {obj.Key}], "delete")]
               /\ UNCHANGED bucket
    /\ UNCHANGED <<now, ticks, tz, is_running, thread, callers, calls>>
    /\ UNCHANGED <<resolveVars, requestVars, toolVars>>

\* time.sleep returns once the interval has passed
LoopWake(t) ==
    /\ t \in DOMAIN loops
    /\ loops[t].pc = "sleep"
    /\ now >= loops[t].wake
    /\ loops' = [loops EXCEPT ![t].pc = "check"]
    /\ UNCHANGED <<bucket, now, ticks, tz, is_running, thread, callers, calls>>
    /\ UNCHANGED <<resolveVars, requestVars, toolVars>>

TickSteps == {1, CleanupIntervalHours}

Tick(d, max) ==
    /\ ticks < max
    /\ now' = now + d
    /\ ticks' = ticks + 1
    /\ UNCHANGED <<bucket, tz, is_running, thread, loops, callers, calls>>
    /\ UNCHANGED <<resolveVars, requestVars, toolVars>>

-----------------------------------------------------------------------------
(* Sweep specification: app/cleanup.py run_continuous_cleanup, one process *)
(* sweeping a store of objects of several ages on a host of any timezone.  *)

\* object k was last modified AgeOf(k) hours before the start
ObjectAges == <<10, 25, 30, 24>>
AgeOf(k) == IF k <= Len(ObjectAges) THEN ObjectAges[k] ELSE CleanupIntervalHours + k

TzOffsets == {-8, 0, 2}

SweepInit ==
    /\ ResolveIdle
    /\ uploads = 0 /\ qpc = "idle" /\ qreq = NoRequest /\ qlisted = FALSE
    /\ qtrace = NoTrace /\ qstatus = 0 /\ ulast = NoUpload
    /\ now = 0
    /\ ticks = 0
    /\ tz \in TzOffsets
    /\ \E S \in SUBSET (1..MaxObjects) : bucket = [k \in S |-> 0 - AgeOf(k)]
    /\ is_running = FALSE
    /\ thread = 0
    /\ loops = [t \in {0} |-> [NoLoop EXCEPT !.pc = "check"]]
    /\ callers = [c \in Callers |-> IdleCaller]
    /\ calls = 0
    /\ ToolsIdle

SweepNext ==
    \/ LoopCheck(0)
    \/ \E fails \in BOOLEAN : SweepListPage(0, fails)
    \/ \E err \in {"none", "ClientError", "Exception"} : SweepObject(0, err)
    \/ LoopWake(0)
    \/ \E d \in TickSteps : Tick(d, MaxTicks)

SpecSweep == SweepInit /\ [][SweepNext]_vars

-----------------------------------------------------------------------------
(* CleanupService: app/services/cleanup_service.py.  start() and stop()    *)
(* run on the callers' threads, one step per read or write of the shared   *)
(* attributes is_running and thread; the loop runs on its own thread.      *)

\* every thread is made by a start() call
ThreadIds == 1..MaxCalls

\* threads whose _run_cleanup_service is executing
ActiveLoops == {t \in DOMAIN loops : loops[t].pc \notin {"new", "exited"}}

\* Thread objects constructed so far
Created == Cardinality(DOMAIN loops)

Return(c, ret) == [callers EXCEPT ![c] = [pc |-> "idle", target |-> 0, ret |-> ret]]

\* if self.is_running: return
StartCheck(c) ==
    /\ callers[c].pc = "idle"
    /\ calls < MaxCalls
    /\ calls' = calls + 1
    /\ callers' = IF is_running THEN Return(c, "noop")
                  ELSE [callers EXCEPT ![c].pc = "start_set"]
    /\ UNCHANGED <<bucket, now, ticks, tz, is_running, thread, loops>>
    /\ UNCHANGED <<resolveVars, requestVars, toolVars>>

\* self.is_running = True
StartSet(c) ==
    /\ callers[c].pc = "start_set"
    /\ is_running' = TRUE
    /\ callers' = [callers EXCEPT ![c].pc = "start_new"]
    /\ UNCHANGED <<bucket, now, ticks, tz, thread, loops, calls>>
    /\ UNCHANGED <<resolveVars, requestVars, toolVars>>

\* faulty variant: the Thread object of an earlier start() is kept
StartNewReuse(c) ==
    /\ callers[c].pc = "start_new"
    /\ LET t == IF thread # 0 THEN thread ELSE Created + 1
       IN /\ loops' = [u \in DOMAIN loops \cup {t} |->
                          IF u \in DOMAIN loops THEN loops[u]
                          ELSE [NoLoop EXCEPT !.pc = "new"]]
          /\ thread' = t
    /\ callers' = [callers EXCEPT ![c].pc = "start_thread"]
    /\ UNCHANGED <<bucket, now, ticks, tz, is_running, calls>>
    /\ UNCHANGED <<resolveVars, requestVars, toolVars>>

\* self.thread = threading.Thread(target=self._run_cleanup_service, daemon=True)
StartNew(c) ==
    /\ callers[c].pc = "start_new"
    /\ LET t == Created + 1
       IN /\ loops' = [u \in DOMAIN loops \cup {t} |->
                          IF u = t THEN [NoLoop EXCEPT !.pc = "new"] ELSE loops[u]]
          /\ thread' = t
    /\ callers' = [callers EXCEPT ![c].pc = "start_thread"]
    /\ UNCHANGED <<bucket, now, ticks, tz, is_running, calls>>
    /\ UNCHANGED <<resolveVars, requestVars, toolVars>>

\* self.thread.start(): RuntimeError when that thread was started already
StartThread(c) ==
    /\ callers[c].pc = "start_thread"
    /\ IF loops[thread].pc = "new"
       THEN /\ loops' = [loops EXCEPT ![thread].pc = "check"]
            /\ callers' = Return(c, "started")
       ELSE /\ callers' = Return(c, "RuntimeError")
            /\ UNCHANGED loops
    /\ UNCHANGED <<bucket, now, ticks, tz, is_running, thread, calls>>
    /\ UNCHANGED <<resolveVars, requestVars, toolVars>>

\* self.is_running = False
StopSet(c) ==
    /\ callers[c].pc = "idle"
    /\ calls < MaxCalls
    /\ calls' = calls + 1
    /\ is_running' = FALSE
    /\ callers' = [callers EXCEPT ![c].pc = "stop_check"]
    /\ UNCHANGED <<bucket, now, ticks, tz, thread, loops>>
    /\ UNCHANGED <<resolveVars, requestVars, toolVars>>

\* if self.thread:
StopCheck(c) ==
    /\ callers[c].pc = "stop_check"
    /\ callers' = IF thread = 0 THEN Return(c, "stopped")
                  ELSE [callers EXCEPT ![c].pc = "stop_call"]
    /\ UNCHANGED <<bucket, now, ticks, tz, is_running, thread, loops, calls>>
    /\ UNCHANGED <<resolveVars, requestVars, toolVars>>

\* self.thread.join(): RuntimeError when that thread was never started
StopJoinCall(c) ==
    /\ callers[c].pc = "stop_call"
    /\ callers' = IF loops[thread].pc = "new" THEN Return(c, "RuntimeError")
                  ELSE [callers EXCEPT ![c].pc = "stop_join", ![c].target = thread]
    /\ UNCHANGED <<bucket, now, ticks, tz, is_running, thread, loops, calls>>
    /\ UNCHANGED <<resolveVars, requestVars, toolVars>>

\* join() returns when the joined thread has ended
StopJoined(c) ==
    /\ callers[c].pc = "stop_join"
    /\ loops[callers[c].target].pc = "exited"
    /\ callers' = Return(c, "stopped")
    /\ UNCHANGED <<bucket, now, ticks, tz, is_running, thread, loops, calls>>
    /\ UNCHANGED <<resolveVars, requestVars, toolVars>>

LifecycleInit ==
    /\ ResolveIdle
    /\ uploads = 0 /\ qpc = "idle" /\ qreq = NoRequest /\ qlisted = FALSE
    /\ qtrace = NoTrace /\ qstatus = 0 /\ ulast = NoUpload
    /\ bucket = [k \in 1..2 |-> 0 - AgeOf(k)]
    /\ SweepIdle
    /\ ToolsIdle

LifecycleNext ==
    \/ \E c \in Callers :
          \/ StartCheck(c)
          \/ StartSet(c)
          \/ StartNew(c)
          \/ StartThread(c)
          \/ StopSet(c)
          \/ StopCheck(c)
          \/ StopJoinCall(c)
          \/ StopJoined(c)
    \/ \E t \in ThreadIds :
          \/ LoopCheck(t)
          \/ SweepListPage(t, FALSE)
          \/ SweepObject(t, "none")
          \/ LoopWake(t)
    \/ Tick(CleanupIntervalHours, MaxDays)

SpecLifecycle == LifecycleInit /\ [][LifecycleNext]_vars

-----------------------------------------------------------------------------
(* CleanupService driven by one thread: start() and stop() calls follow    *)
(* one another, the store spans two listing pages, and the listing and the *)
(* delete calls may fail.  A started thread is scheduled: it reaches its   *)
(* while test.                                                             *)

Owner == "c1"

ServiceInit ==
    /\ ResolveIdle
    /\ uploads = 0 /\ qpc = "idle" /\ qreq = NoRequest /\ qlisted = FALSE
    /\ qtrace = NoTrace /\ qstatus = 0 /\ ulast = NoUpload
    /\ bucket = [k \in 1..(PageSize + 1) |-> 0 - AgeOf(k)]
    /\ SweepIdle
    /\ ToolsIdle

ServiceNext ==
    \/ StartCheck(Owner)
    \/ StartSet(Owner)
    \/ StartNew(Owner)
    \/ StartThread(Owner)
    \/ StopSet(Owner)
    \/ StopCheck(Owner)
    \/ StopJoinCall(Owner)
    \/ StopJoined(Owner)
    \/ \E t \in ThreadIds :
          \/ LoopCheck(t)
          \/ \E fails \in BOOLEAN : SweepListPage(t, fails)
          \/ \E err \in {"none", "ClientError", "Exception"} : SweepObject(t, err)
          \/ LoopWake(t)
    \/ Tick(CleanupIntervalHours, MaxDays)

SpecService ==
    /\ ServiceInit
    /\ [][ServiceNext]_vars
    /\ \A t \in ThreadIds : WF_vars(LoopCheck(t))

-----------------------------------------------------------------------------
(* Image annotation: app/utils/image_processing.py                         *)
(* circle_the_info_on_image.  The normalized coordinates are floats; they  *)
(* are kept here in thousandths, and taken from values for which the float *)
(* product, truncated by int(), equals the exact one.                      *)

\* the pixels added on every side of the box
Margin == 3

Min(a, b) == IF a < b THEN a ELSE b

\* int(v * size) for the normalized value v / 1000
Scale(v, size) == (v * size) \div 1000

\* faulty variant: the radius is taken from the longer side
CircleWithLongerSide(size, geo) ==
    IF geo = EmptyDict
    THEN [done |-> TRUE, drawn |-> FALSE, box |-> << >>, radius |-> 0]
    ELSE LET left == Scale(Get(geo, "Left", 0), size.width) - Margin
             top == Scale(Get(geo, "Top", 0), size.height) - Margin
             right == Scale(Get(geo, "Left", 0) + Get(geo, "Width", 0), size.width)
                        + Margin
             bottom == Scale(Get(geo, "Top", 0) + Get(geo, "Height", 0), size.height)
                        + Margin
             longer == IF right - left > bottom - top THEN right - left
                       ELSE bottom - top
         IN [done |-> TRUE, drawn |-> TRUE, box |-> <<left, top, right, bottom>>,
             radius |-> longer \div 10]

\* if geometry: ... draw.rounded_rectangle([left, top, right, bottom], radius)
CircleTheInfoOnImage(size, geo) ==
    IF geo = EmptyDict
    THEN [done |-> TRUE, drawn |-> FALSE, box |-> << >>, radius |-> 0]
    ELSE LET left == Scale(Get(geo, "Left", 0), size.width) - Margin
             top == Scale(Get(geo, "Top", 0), size.height) - Margin
             right == Scale(Get(geo, "Left", 0) + Get(geo, "Width", 0), size.width)
                        + Margin
             bottom == Scale(Get(geo, "Top", 0) + Get(geo, "Height", 0), size.height)
                        + Margin
             corner_radius == Min(right - left, bottom - top) \div 10
         IN [done |-> TRUE, drawn |-> TRUE, box |-> <<left, top, right, bottom>>,
             radius |-> corner_radius]

ImageSizes == {[width |-> 1000, height |-> 1000], [width |-> 640, height |-> 480]}

\* values in thousandths, and the keys the dict may carry (none: no geometry)
Offsets == {0, 100, 290}
Extents == {100, 200, 500}
KeySets == {{"Left", "Top", "Width", "Height"}, {"Left", "Width"},
            {"Width", "Height"}, {}}

GeometryOf(l, t, w, h, keys) ==
    LET given == [Left |-> l, Top |-> t, Width |-> w, Height |-> h]
    IN [k \in keys |-> given[k]]

AnnotateInit ==
    /\ ResolveIdle
    /\ QueryIdle
    /\ SweepIdle
    /\ SecretsIdle
    /\ image \in ImageSizes
    /\ \E l, t \in Offsets, w, h \in Extents, keys \in KeySets :
          geometry = GeometryOf(l, t, w, h, keys)
    /\ drawn = NotDrawn

Annotate ==
    /\ ~drawn.done
    /\ drawn' = CircleTheInfoOnImage(image, geometry)
    /\ UNCHANGED <<image, geometry>>
    /\ UNCHANGED <<resolveVars, queryVars, sweepVars, secretVars>>

AnnotateNext == Annotate

SpecAnnotate == AnnotateInit /\ [][AnnotateNext]_vars

-----------------------------------------------------------------------------
(* Secrets: lib/secrets.py get_secret over the module-level _secret_cache, *)
(* called from several threads; one step per access to the shared dict and *)
(* per provider call.  A secret is written <<name, version>> so that a     *)
(* value filed under another name would show.                              *)

SecretNames == {"n1", "n2"}
Versions == {1, 2}

\* what client.get_secret_value(SecretId=name) may answer: a plain
\* SecretString, a JSON object of one pair or of two, a binary secret, or a
\* ClientError
ProviderAnswers(name) ==
    {[kind |-> k, text |-> <<name, v>>] : k \in {"string", "json1"}, v \in Versions}
    \cup {[kind |-> "json2", text |-> <<name, 1>>],
          [kind |-> "binary", text |-> << >>],
          [kind |-> "ClientError", text |-> << >>]}

\* os.environ.get(env_var) in development: unset, or the variable's value
EnvValues == {<< >>, <<"env">>}

\* json.loads and the one-pair rule: the pair's value, else the raw string
ParseSecret(resp) ==
    CASE resp.kind = "json1"  -> resp.text
      [] resp.kind = "json2"  -> <<"json">> \o resp.text
      [] OTHER                -> <<"raw">> \o resp.text

\* faulty variant: the cache is not consulted
CacheHitNever(use_cache, name) == FALSE

\* use_cache and secret_name in _secret_cache
CacheHit(use_cache, name) == use_cache /\ name \in DOMAIN secret_cache

GetSecretCall(g, name, use_cache) ==
    /\ getters[g].pc = "idle"
    /\ gets < MaxGets
    /\ gets' = gets + 1
    /\ getters' = [getters EXCEPT ![g] =
          [IdleGetter EXCEPT
              !.pc = IF CacheHit(use_cache, name) THEN "read" ELSE "request",
              !.name = name, !.use_cache = use_cache,
              !.cached = name \in DOMAIN secret_cache]]
    /\ UNCHANGED <<secret_cache, provided>>
    /\ UNCHANGED <<resolveVars, queryVars, sweepVars, annotateVars>>

\* return _secret_cache[secret_name]
GetSecretRead(g) ==
    /\ getters[g].pc = "read"
    /\ getters' = [getters EXCEPT ![g] =
          IF @.name \in DOMAIN secret_cache
          THEN [@ EXCEPT !.pc = "idle", !.outcome = "ok",
                         !.ret = secret_cache[getters[g].name]]
          ELSE [@ EXCEPT !.pc = "idle", !.outcome = "KeyError"]]
    /\ UNCHANGED <<secret_cache, provided, gets>>
    /\ UNCHANGED <<resolveVars, queryVars, sweepVars, annotateVars>>

\* client.get_secret_value and the parsing of its answer
GetSecretRequest(g, resp, env) ==
    /\ getters[g].pc = "request"
    /\ resp \in ProviderAnswers(getters[g].name)
    /\ IF resp.kind = "ClientError"
       THEN /\ getters' = [getters EXCEPT ![g] =
                  IF env # << >>
                  THEN [@ EXCEPT !.pc = "idle", !.called = TRUE,
                                 !.outcome = "fallback", !.ret = env]
                  ELSE [@ EXCEPT !.pc = "idle", !.called = TRUE,
                                 !.outcome = "raised"]]
            /\ UNCHANGED provided
       ELSE IF resp.kind = "binary"
       THEN /\ getters' = [getters EXCEPT ![g] =
                  [@ EXCEPT !.pc = "idle", !.called = TRUE, !.outcome = "raised"]]
            /\ UNCHANGED provided
       ELSE LET secret == ParseSecret(resp)
                name == getters[g].name
            IN /\ getters' = [getters EXCEPT ![g] =
                     [@ EXCEPT !.pc = "store", !.called = TRUE, !.secret = secret]]
               /\ provided' = [n \in DOMAIN provided \cup {name} |->
                     IF n = name THEN Get(provided, n, {}) \cup {secret}
                     ELSE provided[n]]
    /\ UNCHANGED <<secret_cache, gets>>
    /\ UNCHANGED <<resolveVars, queryVars, sweepVars, annotateVars>>

\* _secret_cache[secret_name] = secret; return secret
GetSecretStore(g) ==
    /\ getters[g].pc = "store"
    /\ secret_cache' = [n \in DOMAIN secret_cache \cup {getters[g].name} |->
          IF n = getters[g].name THEN getters[g].secret ELSE secret_cache[n]]
    /\ getters' = [getters EXCEPT ![g] =
          [@ EXCEPT !.pc = "idle", !.wrote = TRUE, !.outcome = "ok",
                    !.ret = getters[g].secret]]
    /\ UNCHANGED <<provided, gets>>
    /\ UNCHANGED <<resolveVars, queryVars, sweepVars, annotateVars>>

SecretsInit == ResolveIdle /\ QueryIdle /\ SweepIdle /\ ToolsIdle

SecretsNext ==
    \E g \in Getters :
        \/ \E name \in SecretNames, use_cache \in BOOLEAN :
              GetSecretCall(g, name, use_cache)
        \/ GetSecretRead(g)
        \/ \E resp \in ProviderAnswers(getters[g].name), env \in EnvValues :
              GetSecretRequest(g, resp, env)
        \/ GetSecretStore(g)

SpecSecrets == SecretsInit /\ [][SecretsNext]_vars

-----------------------------------------------------------------------------
(* Properties of the query resolution engine                               *)

BlocksOf(ext) == IF ext.kind = "ok" THEN Get(ext.resp, "Blocks", << >>) ELSE << >>

\* the QUERY blocks of a response that carry the alias
QueryBlocksFor(ext, alias) ==
    {b \in Range(BlocksOf(ext)) :
        /\ Get(b, "BlockType", "") = "QUERY"
        /\ Get(Get(b, "Query", EmptyDict), "Alias", "") = alias}

\* the blocks named by the first id of the first relationship of those blocks
LinkedBlocks(ext, alias) ==
    {a \in Range(BlocksOf(ext)) :
        \E b \in QueryBlocksFor(ext, alias) :
            /\ "Relationships" \in DOMAIN b
            /\ b.Relationships # << >>
            /\ b.Relationships[1].Ids # << >>
            /\ b.Relationships[1].Ids[1] = a.Id}

\* C1: the batch analyze_document returns one result per query, result i
\* carrying query i and the answer of the QUERY block whose alias is
\* query_i, wherever that block stands in the response.
C1_ResultsFollowInput ==
    outcome = "ok" =>
        /\ Len(results) = Len(queries)
        /\ \A i \in 1..Len(queries) :
              LET qb == QueryBlocksFor(extraction, Alias(i - 1))
                  lb == LinkedBlocks(extraction, Alias(i - 1))
              IN /\ results[i].query = queries[i]
                 /\ IF qb = {} THEN results[i].query_id = ""
                    ELSE results[i].query_id \in {b.Id : b \in qb}
                 /\ IF lb = {} THEN results[i].answer = "No answer found"
                    ELSE results[i].answer \in
                            {Get(a, "Text", "No answer found") : a \in lb}

\* two answered queries whose QUERY blocks arrive in reverse order
C1_Witness ==
    /\ outcome = "ok"
    /\ Len(queries) = 2
    /\ queries[1] # queries[2]
    /\ \E j, k \in DOMAIN BlocksOf(extraction) :
          /\ j < k
          /\ BlocksOf(extraction)[j] \in QueryBlocksFor(extraction, Alias(1))
          /\ BlocksOf(extraction)[k] \in QueryBlocksFor(extraction, Alias(0))
    /\ results[1].answer = "ans0"
    /\ results[2].answer = "ans1"

\* C3: the single-query analyze_document agrees with the batch
\* analyze_document on the one-element list, for every response.
C3_SingleEqualsBatch ==
    (Len(queries) = 1 /\ outcome # "none" /\ singleOutcome # "none") =>
        /\ singleOutcome = outcome
        /\ outcome = "ok" =>
              /\ single.answer = results[1].answer
              /\ single.confidence = results[1].confidence
              /\ Get(single, "geometry", EmptyDict) = results[1].geometry

\* C4: a position whose alias has no linked QUERY_RESULT block gets the
\* fallback record, and a response of the service never makes the call raise.
C4_NoAnswerFallback ==
    (extraction.kind = "ok" /\ outcome # "none") =>
        /\ outcome = "ok"
        /\ \A i \in 1..Len(queries) :
              {a \in LinkedBlocks(extraction, Alias(i - 1)) :
                   Get(a, "BlockType", "") = "QUERY_RESULT"} = {} =>
                 /\ results[i].answer = "No answer found"
                 /\ results[i].confidence = 0
                 /\ results[i].geometry = EmptyDict

\* a QUERY block without relationship, another alias missing altogether
C4_Witness ==
    /\ outcome = "ok"
    /\ Len(queries) = 2
    /\ \E b \in QueryBlocksFor(extraction, Alias(0)) : "Relationships" \notin DOMAIN b
    /\ QueryBlocksFor(extraction, Alias(1)) = {}
    /\ results[1].answer = "No answer found"
    /\ results[2] = NoAnswer(queries[2])

\* the first id of the first relationship of a QUERY block, "" when none
FirstAnswerId(b) ==
    IF /\ "Relationships" \in DOMAIN b
       /\ b.Relationships # << >>
       /\ b.Relationships[1].Ids # << >>
    THEN b.Relationships[1].Ids[1]
    ELSE ""

\* C20: a QUERY block whose first answer id names no block of the response
\* resolves to the three defaults; one whose answer block lacks Text,
\* Confidence or Geometry takes the default for each missing field; no id but
\* the first of the first relationship is followed, and nothing is raised.
C20_LenientDefaults ==
    (extraction.kind = "ok" /\ outcome # "none") =>
        /\ outcome = "ok"
        /\ \A i \in 1..Len(queries) :
              \A b \in QueryBlocksFor(extraction, Alias(i - 1)) :
                 FirstAnswerId(b) # "" =>
                    LET targets == {a \in Range(BlocksOf(extraction)) :
                                       a.Id = FirstAnswerId(b)}
                    IN IF targets = {}
                       THEN /\ results[i].answer = "No answer found"
                            /\ results[i].confidence = 0
                            /\ results[i].geometry = EmptyDict
                       ELSE \E a \in targets :
                            /\ results[i].answer =
                                  (IF "Text" \in DOMAIN a THEN a.Text
                                   ELSE "No answer found")
                            /\ results[i].confidence =
                                  (IF "Confidence" \in DOMAIN a THEN a.Confidence
                                   ELSE 0)
                            /\ results[i].geometry =
                                  (IF "Geometry" \in DOMAIN a
                                   THEN a.Geometry.BoundingBox ELSE EmptyDict)

\* a dangling answer id for the first query, an answer block with nothing
\* but its Text for the second
C20_Witness ==
    /\ outcome = "ok"
    /\ Len(queries) = 2
    /\ \E b \in QueryBlocksFor(extraction, Alias(0)) :
          /\ FirstAnswerId(b) # ""
          /\ \A a \in Range(BlocksOf(extraction)) : a.Id # FirstAnswerId(b)
    /\ results[1].answer = "No answer found"
    /\ results[1].query_id = "q0"
    /\ results[2].answer = "ans1"
    /\ results[2].confidence = 0
    /\ results[2].geometry = EmptyDict

-----------------------------------------------------------------------------
(* Properties of the request path                                          *)

\* C2: every result the analysis returns on the rephrasing query path
\* carries the caller's original query string.
C2_OriginalQueryKept ==
    (qpc = "done" /\ qreq.path = "lambda" /\ qtrace.analysis.outcome = "ok") =>
        \A k \in DOMAIN qtrace.analysis.value :
            qtrace.analysis.value[k].query = qreq.user_query

\* C5: a failing rephrase is absorbed: the query is still analysed and the
\* request does not end in an error.
C5_RephraseFailureAbsorbed ==
    (qpc = "done" /\ qtrace.rephrase = "fail") =>
        /\ qstatus # 500
        /\ qtrace.analysis.outcome # "none"

\* C6: a failed extraction call ends analyze_document with an error and no
\* result list, and the request with status 500.
C6_ExtractionFailureIsTerminal ==
    (qpc = "done" /\ qtrace.textract = "fail") =>
        /\ qtrace.analysis.outcome = "error"
        /\ qtrace.analysis.value = << >>
        /\ qstatus = 500

C6_Witness ==
    /\ qpc = "done"
    /\ qreq.path = "lambda"
    /\ qtrace.rephrase = "ok"
    /\ qtrace.textract = "fail"
    /\ qstatus = 500

\* C7: a well-formed query request answers 404 exactly when nothing is
\* stored under documents/{file_id}/, and succeeds on a stored document
\* when no collaborator fails.
C7_NotFoundIffAbsent ==
    (qpc = "done" /\ qreq.file_id # "" /\ qreq.user_query # << >>) =>
        /\ (qstatus = 404) <=> ~qlisted
        /\ (/\ qlisted
            /\ qtrace.getFile = "none"
            /\ qtrace.key # "missing"
            /\ qtrace.rephrase # "fail"
            /\ qtrace.textract = "ok"
            /\ qreq.path = "lambda") => qstatus = 200

\* C8: a document deleted between the listing and the read ends the
\* request like a document that never existed: FileNotFoundError, 404.
C8_RaceIsNotFound ==
    (qpc = "done" /\ qlisted /\ qtrace.getFile # "none") =>
        /\ qtrace.getFile = "FileNotFoundError"
        /\ qstatus = 404

\* C18: the query request makes one extraction call, whose batch has one
\* entry for the one query: alias query_0 and the query's (rephrased) text.
C18_OneBatchPerResolve ==
    (qpc = "done" /\ qreq.path = "lambda" /\ qtrace.textract # "none") =>
        LET sent == qtrace.analysis.sent IN
        /\ Len(sent) = 1
        /\ Len(sent[1]) = 1
        /\ sent[1][1].Alias = Alias(0)
        /\ sent[1][1].Text = qtrace.question
        /\ \A i, j \in DOMAIN sent[1] : i # j => sent[1][i].Alias # sent[1][j].Alias

\* a rephrased question of one character: one call, one entry
C18_Witness ==
    /\ qpc = "done"
    /\ qreq.path = "lambda"
    /\ qtrace.question = <<"a">>
    /\ qtrace.analysis.sent = << << [Text |-> <<"a">>, Alias |-> "query_0"] >> >>

\* the two checks of an upload, on the size and the lower-cased extension
Refused(u) == u.size > MAX_FILE_SIZE \/ Lower(u.ext) \notin ALLOWED_FILE_TYPES

\* what an upload step may do: refuse with a 400 and leave the store as it
\* is, or put one object under a file id no earlier upload was given
UploadStep ==
    LET u == ulast' IN
    IF Refused(u)
    THEN /\ u.status = 400
         /\ u.file_id = ""
         /\ u.detail \in {"File too large", "File type not allowed"}
         /\ u.detail = "File too large" => u.size > MAX_FILE_SIZE
         /\ u.detail = "File type not allowed" =>
                Lower(u.ext) \notin ALLOWED_FILE_TYPES
         /\ bucket' = bucket
         /\ uploads' = uploads
    ELSE \/ /\ u.status = 500
            /\ u.file_id = ""
            /\ bucket' = bucket
            /\ uploads' = uploads
         \/ /\ u.status = 200
            /\ uploads' = uploads + 1
            /\ u.file_id = FileId(uploads')
            /\ u.file_id \notin {FileId(k) : k \in 1..uploads}
            /\ uploads' \notin DOMAIN bucket
            /\ DOMAIN bucket' = DOMAIN bucket \cup {uploads'}
            /\ \A k \in DOMAIN bucket : bucket'[k] = bucket[k]

\* C15: an upload over MAX_FILE_SIZE or with an extension outside
\* ALLOWED_FILE_TYPES is answered 400 with its detail and changes nothing in
\* the store; an accepted upload stores exactly one object under a fresh id.
C15_UploadValidation == [][ulast' # ulast => UploadStep]_vars

\* a file one byte over the limit is refused after another was stored
C15_Witness ==
    /\ ulast.status = 400
    /\ ulast.detail = "File too large"
    /\ ulast.size = MAX_FILE_SIZE + 1
    /\ ulast.ext = ".pdf"
    /\ uploads = 1
    /\ DOMAIN bucket = {1}

-----------------------------------------------------------------------------
(* Properties of the retention sweep                                       *)

\* an iteration of loop t has run to its end with no call failing
CleanIteration(t) ==
    /\ loops[t].pc = "sleep"
    /\ loops[t].aborted = "none"
    /\ loops[t].failed = {}

\* C9: an iteration in which no call fails deletes exactly the objects that
\* were older than the retention window when the iteration started.
C9_DeletesExactlyExpired ==
    \A t \in DOMAIN loops :
        CleanIteration(t) =>
            \A k \in DOMAIN loops[t].store0 :
                (k \in loops[t].deleted) <=>
                    (loops[t].now0 - loops[t].store0[k] > CleanupIntervalHours)

\* the same statement restricted to a host whose local time is UTC
SweepExactOnUtcHost == tz = 0 => C9_DeletesExactlyExpired

C9_Witness ==
    /\ tz = 0
    /\ CleanIteration(0)
    /\ loops[0].now0 = 0
    /\ DOMAIN loops[0].store0 = 1..4
    /\ loops[0].deleted = {2, 3}
    /\ DOMAIN bucket = {1, 4}

\* the objects of the store that the iteration's own test finds old
Expired(t) ==
    {k \in DOMAIN loops[t].store0 : IsOld(loops[t].store0[k], loops[t].cutoff)}

\* the objects the iteration called delete_object for
Attempted(t) == loops[t].deleted \cup loops[t].failed

\* C13: whatever delete_object raises for one object, the iteration goes on:
\* unless the listing fails, it ends having attempted every old object.
C13_DeleteFailureDoesNotAbort ==
    \A t \in DOMAIN loops :
        (loops[t].pc = "sleep" /\ loops[t].aborted # "list") =>
            /\ loops[t].aborted = "none"
            /\ Expired(t) \subseteq Attempted(t)

\* a ClientError on the first page, the old object of the next page deleted
C13_Witness ==
    /\ tz = 0
    /\ loops[0].pc = "sleep"
    /\ loops[0].aborted = "none"
    /\ DOMAIN loops[0].store0 = 1..4
    /\ loops[0].failed = {2}
    /\ loops[0].deleted = {3}

\* C17: the first iteration is not preceded by a sleep; every iteration,
\* ended or aborted, is followed by one sleep of the retention window, and
\* the next iteration begins no earlier than that; the age cutoff of an
\* iteration is the same window before its start.
C17_OneWindowBetweenIterations ==
    \A t \in DOMAIN loops :
        LET l == loops[t] IN
        /\ l.pc = "sleep" => l.wake = l.slept + CleanupIntervalHours
        /\ (l.iter = 1 /\ l.pc \in {"list", "page"}) => l.wake = 0
        /\ (l.iter >= 2 /\ l.pc \in {"list", "page"}) =>
              /\ l.wake = l.slept + CleanupIntervalHours
              /\ l.now0 >= l.wake
        /\ l.iter >= 1 => l.cutoff = l.now0 + tz - CleanupIntervalHours

\* the second iteration, begun a window after the first one was aborted
C17_Witness ==
    /\ loops[0].iter = 2
    /\ loops[0].pc = "list"
    /\ loops[0].aborted = "list"
    /\ loops[0].slept = 1
    /\ loops[0].wake = 1 + CleanupIntervalHours
    /\ loops[0].now0 = loops[0].wake

\* the objects of the store whose real age, on the store's own UTC clock,
\* exceeded the retention window when the iteration started
RealOld(t) ==
    {k \in DOMAIN loops[t].store0 :
        loops[t].now0 - loops[t].store0[k] > CleanupIntervalHours}

\* C21: whatever the offset of the host's local time from UTC, the sweep
\* calls delete_object only for objects really older than the retention
\* window, and an iteration that was not cut short has called it for every
\* such object.
C21_DecisionByRealAge ==
    \A t \in DOMAIN loops :
        /\ Attempted(t) \subseteq RealOld(t)
        /\ (loops[t].pc = "sleep" /\ loops[t].aborted = "none" /\ loops[t].iter >= 1)
              => RealOld(t) \subseteq Attempted(t)

\* on a host two hours ahead of UTC an iteration has kept the 10 h object
\* and deleted the 30 h object
C21_Witness ==
    /\ tz = 2
    /\ CleanIteration(0)
    /\ loops[0].iter = 1
    /\ DOMAIN loops[0].store0 = {1, 3}
    /\ loops[0].deleted = {3}
    /\ DOMAIN bucket = {1}

-----------------------------------------------------------------------------
(* Properties of the CleanupService lifecycle                              *)

\* C10: whatever the interleaving of start() and stop() calls, at most one
\* sweep loop thread is active, and no object is deleted by two loops.
C10_AtMostOneLoop ==
    /\ Cardinality(ActiveLoops) <= 1
    /\ \A t, u \in DOMAIN loops : t # u => loops[t].deleted \cap loops[u].deleted = {}

\* two loops alive while a stop() is still waiting in join()
TwoLoopsDuringStop ==
    /\ Cardinality(ActiveLoops) = 2
    /\ \E c \in Callers : callers[c].pc = "stop_join"

\* start() calls that never overlap another call keep to one loop
C10_Witness ==
    /\ is_running
    /\ Cardinality(ActiveLoops) = 1
    /\ \E c \in Callers : callers[c].ret = "noop"

\* no caller is inside start() or stop(), and a stop() has returned after
\* which no start() made the service run again
StoppedAfterStop ==
    /\ ~is_running
    /\ \A c \in Callers : callers[c].pc = "idle"
    /\ \E c \in Callers : callers[c].ret = "stopped"

\* loops inside cleanup_old_files
Sweeping == {t \in DOMAIN loops : loops[t].pc \in {"list", "page"}}

\* C11: once stop() has returned, no loop is inside a sweep (a loop that is
\* not inside one reads the cleared flag next and exits), so nothing is swept
\* or deleted before the next start().
C11_StoppedAfterStopReturns == StoppedAfterStop => Sweeping = {}

\* start() then stop() from one caller: the loop swept both objects to the
\* end, slept, saw the flag and exited before stop() returned
C11_Witness ==
    /\ StoppedAfterStop
    /\ DOMAIN loops = {1}
    /\ loops[1].pc = "exited"
    /\ loops[1].iter = 1
    /\ loops[1].deleted = {2}
    /\ ActiveLoops = {}

-----------------------------------------------------------------------------
(* Properties of the CleanupService used from one thread                   *)

\* the last call has returned and it was a start()
RunningAfterStart ==
    /\ callers[Owner].pc = "idle"
    /\ callers[Owner].ret \in {"started", "noop"}

\* the last call has returned and it was a stop()
StoppedAfterReturn ==
    /\ callers[Owner].pc = "idle"
    /\ callers[Owner].ret \in {"none", "stopped"}

\* Stopped and Running are the only states between calls: Running has the
\* flag set and exactly one live loop, the one of the newest Thread object;
\* Stopped has the flag cleared and no live loop.
LifecycleStates ==
    /\ callers[Owner].pc = "idle" => (RunningAfterStart \/ StoppedAfterReturn)
    /\ RunningAfterStart =>
          /\ is_running
          /\ thread = Created
          /\ ActiveLoops = {thread}
    /\ StoppedAfterReturn =>
          /\ ~is_running
          /\ ActiveLoops = {}

\* a start() that follows a returned stop() has just started a fresh loop
Restarted ==
    /\ RunningAfterStart
    /\ Created >= 2
    /\ loops[thread].pc = "check"
    /\ loops[thread].iter = 0

\* C12: between calls the service is Stopped or Running, a start() after a
\* returned stop() leaves it Running with a fresh loop, and that loop begins
\* a sweep iteration unless the service is stopped first.
C12_RestartResumes ==
    /\ []LifecycleStates
    /\ Restarted ~> (~is_running \/ (thread \in DOMAIN loops /\ loops[thread].iter >= 1))

\* start, stop and start again: the first loop has exited, the second sweeps
C12_Witness ==
    /\ RunningAfterStart
    /\ Created = 2
    /\ loops[1].pc = "exited"
    /\ loops[1].iter = 1
    /\ loops[2].iter = 1
    /\ loops[2].pc = "page"

\* C14: a failed listing aborts the iteration and nothing else: the loop
\* sleeps one window and stays alive, and the service stays Running.
C14_ListingFailureKeepsLoop ==
    \A t \in DOMAIN loops :
        loops[t].aborted = "list" =>
            /\ loops[t].pc = "sleep" =>
                  /\ loops[t].wake = loops[t].slept + CleanupIntervalHours
                  /\ loops[t].page = << >>
            /\ (RunningAfterStart /\ t = thread) =>
                  /\ is_running
                  /\ loops[t].pc \in {"sleep", "check", "list", "page"}

\* the iteration after the one whose listing failed is under way
C14_Witness ==
    /\ RunningAfterStart
    /\ loops[thread].aborted = "list"
    /\ loops[thread].iter = 2
    /\ loops[thread].pc = "page"
    /\ loops[thread].now0 = CleanupIntervalHours

-----------------------------------------------------------------------------
(* Properties of the image annotation                                      *)

\* geometry {Left 0.1, Top 0.1, Width 0.2, Height 0.1} on a 1000x1000 image
ExampleAnnotation ==
    /\ drawn.done
    /\ image = [width |-> 1000, height |-> 1000]
    /\ geometry = [Left |-> 100, Top |-> 100, Width |-> 200, Height |-> 100]

\* the normalized box in pixels: <<x0, y0, x1, y1>>
PixelBox ==
    LET l == Get(geometry, "Left", 0)
        t == Get(geometry, "Top", 0)
        w == Get(geometry, "Width", 0)
        h == Get(geometry, "Height", 0)
    IN <<(l * image.width) \div 1000, (t * image.height) \div 1000,
         ((l + w) * image.width) \div 1000, ((t + h) * image.height) \div 1000>>

\* C16 as stated: the example's box is drawn at 97,97 - 303,203 with corner
\* radius floor(200/10) = 20.
C16_ExampleRadiusTwenty ==
    ExampleAnnotation =>
        /\ drawn.box = <<97, 97, 303, 203>>
        /\ drawn.radius = 20

\* C16, amended: the drawn box is the pixel box widened by 3 pixels on every
\* side, and the corner radius is the shorter side of the drawn box floor
\* divided by 10: 97,97 - 303,203 with radius floor(106/10) = 10 in the example.
C16_AnnotateBox ==
    (drawn.done /\ drawn.drawn) =>
        /\ drawn.box = <<PixelBox[1] - 3, PixelBox[2] - 3,
                         PixelBox[3] + 3, PixelBox[4] + 3>>
        /\ drawn.radius =
              Min(PixelBox[3] - PixelBox[1] + 6, PixelBox[4] - PixelBox[2] + 6) \div 10
        /\ ExampleAnnotation =>
              /\ PixelBox = <<100, 100, 300, 200>>
              /\ drawn.box = <<97, 97, 303, 203>>
              /\ drawn.radius = 10

C16_Witness ==
    /\ ExampleAnnotation
    /\ drawn.drawn
    /\ drawn.box = <<97, 97, 303, 203>>
    /\ drawn.radius = 10

-----------------------------------------------------------------------------
(* Properties of the secret cache                                          *)

\* every cached entry is a secret the provider gave for that name; a call
\* that found its name cached and may use the cache returns such a secret
\* without a provider call; a call that failed has written nothing
CacheCoherent ==
    /\ \A n \in DOMAIN secret_cache :
          n \in DOMAIN provided /\ secret_cache[n] \in provided[n]
    /\ \A g \in Getters :
          LET c == getters[g] IN
          /\ (c.outcome # "none" /\ c.use_cache /\ c.cached) =>
                /\ c.outcome = "ok"
                /\ ~c.called
                /\ c.ret \in provided[c.name]
          /\ c.outcome \in {"raised", "fallback", "KeyError"} => ~c.wrote

\* a provider call that fails leaves the cache as it is, and a store puts the
\* caller's secret under the caller's name and touches no other entry
CacheSteps ==
    \A g \in Getters :
        /\ (getters[g].pc = "request" /\ getters'[g].pc = "idle") =>
              secret_cache' = secret_cache
        /\ (getters[g].pc = "store" /\ getters'[g].pc = "idle") =>
              /\ secret_cache'[getters[g].name] = getters[g].secret
              /\ \A n \in DOMAIN secret_cache :
                    n # getters[g].name => secret_cache'[n] = secret_cache[n]

\* C19: under every interleaving of get_secret calls the cache holds, per
\* name, a secret the provider returned for that name (the last one stored);
\* a cached name is answered from the cache without a provider call; a
\* failed provider call leaves the cache unchanged.
C19_SecretCache == []CacheCoherent /\ [][CacheSteps]_vars

\* two threads miss on n1 together and store different versions; the later
\* store stands, and a third call is answered from the cache
C19_Witness ==
    /\ "n1" \in DOMAIN secret_cache
    /\ Cardinality(provided["n1"]) = 2
    /\ getters["g2"].wrote
    /\ getters["g2"].name = "n1"
    /\ getters["g1"].name = "n1"
    /\ getters["g1"].cached
    /\ getters["g1"].outcome = "ok"
    /\ ~getters["g1"].called
    /\ getters["g1"].ret = secret_cache["n1"]
    /\ getters["g1"].ret = getters["g2"].ret

====
